---- MODULE Spec2Model ----
(***************************************************************************)
(* Model of the ICP deterministic AI gateway: the Worker front door        *)
(* (validation, routing by cache key, signing) and the AICacheDurableObject*)
(* (cache lookup, single-flight generation, statistics, cleanup).          *)
(*                                                                         *)
(* Optional values (a field that may be undefined) are sequences of length *)
(* 0 or 1: <<>> is undefined, <<v>> is the value v.                        *)
(***************************************************************************)
EXTENDS Integers, Sequences, FiniteSets, TLC

\* ------------------------------------------------------------------ state
VARIABLES
    env,              \* the Worker's and the objects' environment bindings
    now,              \* Date.now()
    storage,          \* per Durable Object: this.state.storage
    pendingRequests,  \* per Durable Object: this.pendingRequests
    calls,            \* every /generate request received, in arrival order
    upstream,         \* every request sent to the OpenAI API, in order
    cleanups          \* the answers to /cleanup and the scheduled runs, in order

vars == <<env, now, storage, pendingRequests, calls, upstream, cleanups>>

\* ------------------------------------------------------------------ bounds
\* Total number of /generate requests submitted in one behaviour.
MaxCalls == 3
\* Date.now() advances at most this many days in one behaviour.
MaxDays == 1
\* Number of cleanup requests in one behaviour.
MaxCleanups == 1
\* Number of /generate requests in one behaviour of the specifications that
\* draw the request bodies from a larger set.
MaxBodies == 2
\* Number of sweeps in one behaviour of the specification of repeated sweeps.
MaxSweeps == 2

\* --------------------------------------------------------------- constants
\* Milliseconds per day, as computed in cleanupExpiredEntries.
DayMs == 24 * 60 * 60 * 1000
\* Default max_tokens used by generateCacheKey (req.max_tokens ?? 150).
DefaultMaxTokens == 150
\* Default retention, parseInt(env.CACHE_RETENTION_DAYS || '90', 10).
DefaultRetentionDays == 90

\* ------------------------------------------------------------- JSON values
\* A value of a parsed JSON body as JavaScript sees it: its typeof and its
\* String() rendering (what a template literal inserts). A number is its
\* rendering: "0", "1", "0.7", "Infinity" (JSON.parse("1e999")).
Undefined == [type |-> "undefined", str |-> "undefined"]
Null == [type |-> "object", str |-> "null"]
Str(s) == [type |-> "string", str |-> s]
Number(s) == [type |-> "number", str |-> s]
Num(n) == Number(ToString(n))
Infinity == Number("Infinity")

\* ----------------------------------------------------------------- inputs
\* GatewayRequest (types.ts): model, prompt, seed required; the rest optional.
Req(m, p, s, t, mt, sp) ==
    [model |-> m, prompt |-> p, seed |-> s, temperature |-> t,
     max_tokens |-> mt, system_prompt |-> sp]

\* The request callers send to /generate in the single-fingerprint
\* specifications: N callers with identical parameters.
GenerateRequests ==
    { Req(Str("m"), Str("p"), Num(1), Undefined, Undefined, Undefined) }

\* Bodies sent to /generate that validateRequest must judge: the request
\* above, the same with temperature 0 or null given, and one body for each
\* way a field can be missing, empty or of the wrong type.
ValidationRequests ==
    LET m == Str("m")  p == Str("p")  s == Num(1)  u == Undefined IN
    { Req(m, p, s, u, u, u), Req(m, p, s, Num(0), u, u),
      Req(m, p, s, Null, u, u),
      Req(u, p, s, u, u, u), Req(Str(""), p, s, u, u, u),
      Req(Num(5), p, s, u, u, u),
      Req(m, u, s, u, u, u), Req(m, Str(""), s, u, u, u),
      Req(m, Num(5), s, u, u, u),
      Req(m, p, u, u, u, u), Req(m, p, Str("1"), u, u, u),
      Req(m, p, Null, u, u, u),
      Req(m, p, s, Number("0.7"), u, u), Req(m, p, s, Str("0"), u, u) }

\* Valid requests whose fingerprints are compared: a request, the same with
\* the defaults of its optional fields written out, another seed, a seed
\* that is not finite, and two requests whose model and prompt contain ':'.
FingerprintRequests ==
    LET m == Str("m")  p == Str("p")  u == Undefined IN
    { Req(m, p, Num(1), u, u, u),
      Req(m, p, Num(1), Num(0), Num(DefaultMaxTokens), Str("")),
      Req(m, p, Num(2), u, u, u),
      Req(m, p, Infinity, u, u, u),
      Req(Str("a:b"), Str("c"), Num(1), u, u, u),
      Req(Str("a"), Str("b:c"), Num(1), u, u, u) }

\* Two requests with different fingerprints, each with a Durable Object of
\* its own.
IsolationRequests ==
    { Req(Str("m"), Str("p"), Num(s), Undefined, Undefined, Undefined) :
         s \in {1, 2} }

\* Valid requests that differ in how they give the optional system_prompt
\* and max_tokens: left out, given empty or 0, and given with the values
\* callOpenAI uses when they are missing.
DefaultsRequests ==
    LET m == Str("m")  p == Str("p")  u == Undefined IN
    { Req(m, p, Num(1), u, u, u),
      Req(m, p, Num(1), u, u, Str("")),
      Req(m, p, Num(1), u, u, Str("You are a helpful assistant.")),
      Req(m, p, Num(1), u, Num(0), u),
      Req(m, p, Num(1), u, Num(DefaultMaxTokens), u) }

\* What the upstream API can send back as the parsed JSON body of a 2xx
\* response: choices undefined, an empty choice list, a first choice without
\* string content, or a first choice with content (the upstream is not
\* deterministic: either of two contents).
Contents == {"x", "y"}
OpenAIResponses ==
    { [choices |-> <<>>],
      [choices |-> << <<>> >>],
      [choices |-> << << [content |-> <<>>] >> >>] }
    \cup { [choices |-> << << [content |-> <<c>>] >> >>] : c \in Contents }

\* The Worker environment bindings (types.ts Env). CACHE_RETENTION_DAYS is a
\* string of decimal digits, given as the sequence of its digits.
DefaultEnv == [SIGNING_SECRET |-> <<"k">>, CACHE_RETENTION_DAYS |-> <<>>]
ShortRetentionEnv ==
    [SIGNING_SECRET |-> <<"k">>, CACHE_RETENTION_DAYS |-> << <<0>> >>]
\* A deployment whose SIGNING_SECRET was never put, or put empty.
NoSecretEnv == [SIGNING_SECRET |-> <<>>, CACHE_RETENTION_DAYS |-> <<>>]
EmptySecretEnv == [SIGNING_SECRET |-> <<"">>, CACHE_RETENTION_DAYS |-> <<>>]

\* ---------------------------------------------------------- pure functions
\* typeof v, !v and v == null of JavaScript.
TypeOf(v) == v.type
Falsy(v) ==
    \/ v = Undefined
    \/ v = Null
    \/ v.type = "string" /\ v.str = ""
    \/ v.type = "number" /\ v.str \in {"0", "NaN"}
Nullish(v) == v = Undefined \/ v = Null

\* a ?? b and a || b.
OrElse(v, default) == IF Nullish(v) THEN default ELSE v
OrFalsy(v, default) == IF Falsy(v) THEN default ELSE v

\* `${v}` in a template literal.
Render(v) == v.str

\* JSON.parse(JSON.stringify(v)) of a field of an object: an undefined
\* field is left out and stays undefined, a number that is not finite is
\* written as null, every other value comes back as it was.
JsonRoundTrip(v) ==
    IF v.type = "number" /\ v.str \in {"Infinity", "-Infinity", "NaN"}
    THEN Null
    ELSE v

\* parseInt(digits, 10) of a non-empty string of decimal digits.
RECURSIVE ParseInt(_)
ParseInt(digits) ==
    IF Len(digits) = 0 THEN 0
    ELSE 10 * ParseInt(SubSeq(digits, 1, Len(digits) - 1)) + digits[Len(digits)]

\* crypto.subtle.digest('SHA-256', data) rendered as hex: collision-free on
\* the strings of the model, and never equal to its own input.
SHA256Hex(s) == <<"sha256", s>>

\* Mutant of generateCacheKey: the seed is left out of the hashed string.
generateCacheKeySeedless(req) ==
    LET temperature  == OrElse(req.temperature, Num(0))
        maxTokens    == OrElse(req.max_tokens, Num(DefaultMaxTokens))
        systemPrompt == OrElse(req.system_prompt, Str(""))
        keyString    == Render(req.model) \o ":" \o Render(req.prompt) \o ":"
                        \o Render(systemPrompt) \o ":" \o Render(temperature)
                        \o ":" \o Render(maxTokens)
    IN  SHA256Hex(keyString)

\* generateCacheKey: defaults by ??, fields joined by ':', then hashed.
generateCacheKey(req) ==
    LET temperature  == OrElse(req.temperature, Num(0))
        maxTokens    == OrElse(req.max_tokens, Num(DefaultMaxTokens))
        systemPrompt == OrElse(req.system_prompt, Str(""))
        keyString    == Render(req.model) \o ":" \o Render(req.prompt) \o ":"
                        \o Render(systemPrompt) \o ":" \o Render(temperature)
                        \o ":" \o Render(req.seed) \o ":" \o Render(maxTokens)
    IN  SHA256Hex(keyString)

\* Mutant of generateSignature: the signed string also carries the time.
generateSignatureTimestamped(requestHash, content, secret) ==
    <<"hmac", secret, requestHash, ":", content, ":", now>>

\* generateSignature: HMAC-SHA256 keyed by the secret over
\* `${requestHash}:${content}`. requestHash is a fixed-width hex digest, so
\* the pair determines the signed string; the HMAC is collision-free on the
\* pairs of the model.
generateSignature(requestHash, content, secret) ==
    <<"hmac", secret, requestHash, ":", content>>

\* Mutant of validateRequest: the temperature is not checked.
validateRequestAnyTemperature(req) ==
    IF Falsy(req.model) \/ TypeOf(req.model) # "string"
    THEN <<"Missing or invalid model">>
    ELSE IF Falsy(req.prompt) \/ TypeOf(req.prompt) # "string"
    THEN <<"Missing or invalid prompt">>
    ELSE IF TypeOf(req.seed) # "number"
    THEN <<"Missing or invalid seed (must be a number)">>
    ELSE <<>>

\* validateRequest: the error message, or <<>> when the request is valid.
validateRequest(req) ==
    IF Falsy(req.model) \/ TypeOf(req.model) # "string"
    THEN <<"Missing or invalid model">>
    ELSE IF Falsy(req.prompt) \/ TypeOf(req.prompt) # "string"
    THEN <<"Missing or invalid prompt">>
    ELSE IF TypeOf(req.seed) # "number"
    THEN <<"Missing or invalid seed (must be a number)">>
    ELSE IF OrElse(req.temperature, Num(0)) # Num(0)
    THEN <<"Temperature must be 0 for deterministic results">>
    ELSE <<>>

\* Mutant of extractContent: a first choice without string content is taken
\* as empty content.
extractContentLenient(openaiResponse) ==
    IF openaiResponse.choices = <<>> \/ Len(openaiResponse.choices[1]) = 0
    THEN [ok |-> FALSE, error |-> "No choices in OpenAI response"]
    ELSE LET content == openaiResponse.choices[1][1].content
         IN  IF content = <<>>
             THEN [ok |-> TRUE, content |-> ""]
             ELSE [ok |-> TRUE, content |-> content[1]]

\* extractContent: the content, or the message of the Error it throws.
extractContent(openaiResponse) ==
    IF openaiResponse.choices = <<>> \/ Len(openaiResponse.choices[1]) = 0
    THEN [ok |-> FALSE, error |-> "No choices in OpenAI response"]
    ELSE LET content == openaiResponse.choices[1][1].content
         IN  IF content = <<>>
             THEN [ok |-> FALSE, error |-> "Invalid content in OpenAI response"]
             ELSE [ok |-> TRUE, content |-> content[1]]

\* Map<K, V> and Durable Object storage: functions over the keys present.
EmptyMap == [k \in {} |-> {}]
MapHas(m, k) == k \in DOMAIN m
MapPut(m, k, v) == [x \in (DOMAIN m) \cup {k} |-> IF x = k THEN v ELSE m[x]]
MapDelete(m, k) == [x \in (DOMAIN m) \ {k} |-> m[x]]

\* Mutant of idFromName: every request goes to one Durable Object.
idFromNameShared(cacheKey) == <<"sha256", "shared">>

\* env.AI_CACHE.idFromName(cacheKey): one Durable Object per name.
idFromName(cacheKey) == cacheKey

\* The Durable Objects the Worker can route a set of requests to, and the
\* Durable Objects of the deployment.
ObjectsFor(requests) ==
    { idFromName(generateCacheKey(r)) :
          r \in { q \in requests : validateRequest(q) = <<>> } }
DOIds == DOMAIN storage

\* The body the Worker forwards: JSON.stringify(gatewayReq), parsed again by
\* the Durable Object.
ForwardedRequest(req) == [f \in DOMAIN req |-> JsonRoundTrip(req[f])]

\* -------------------------------------------------------------- requests
(***************************************************************************)
(* Positions of a request:                                                 *)
(*   routed   the Worker has validated it, derived the key and called the  *)
(*            stub of the Durable Object; the object has not taken it yet  *)
(*   reading  awaiting this.state.storage.get(cacheKey) (l. 180)           *)
(*   joined   awaiting the generation promise of another request (l. 196)  *)
(*   upstream awaiting fetch() to the OpenAI API and its body (l. 263-278) *)
(*   done     answered                                                     *)
(*                                                                         *)
(* A Durable Object runs one event at a time, and while one of its storage *)
(* operations (get, put, list, delete) is awaited its input gate is closed:*)
(* no other event (a request, the upstream's answer) is delivered to it.   *)
(* The read of the store is a position of its own, guarded by the gate;    *)
(* a put, and the list and deletes of the cleanup, are followed by no      *)
(* decision of the code and stay inside the action that issues them. The   *)
(* awaits of request.json(), generateCacheKey() and response.json() touch  *)
(* no state of the object and are folded into the step that follows them.  *)
(***************************************************************************)
Calls == 1..Len(calls)
At(i, p) == calls[i].pc = p
DOof(i) == idFromName(calls[i].key)

\* Mutant of InputGateOpen: events are delivered during a storage read.
InputGateIgnored(d) == TRUE

\* The input gate of Durable Object d: open unless a request of the object
\* awaits the store.
InputGateOpen(d) == \A j \in Calls : ~(At(j, "reading") /\ DOof(j) = d)

InitWith(e, requests) ==
    /\ env = e
    /\ now = 0
    /\ storage = [d \in ObjectsFor(requests) |-> EmptyMap]
    /\ pendingRequests = [d \in ObjectsFor(requests) |-> EmptyMap]
    /\ calls = <<>>
    /\ upstream = <<>>
    /\ cleanups = <<>>

Init == InitWith(DefaultEnv, GenerateRequests)

\* ------------------------------------------------------- Worker: fetch
\* A request as the model tracks it. req is the body the Worker parsed (the
\* Durable Object sees ForwardedRequest(req)); key is the Worker's routing key;
\* cacheKey the key the Durable Object derives; cached what its storage.get
\* returns (<<>> for undefined), until the request returns; awaits the
\* request whose generation promise
\* a joiner awaits; resp the answer; prior the requests already answered
\* when this one arrived.
NewCall(req, pc, key, resp) ==
    [req |-> req, pc |-> pc, key |-> key, cacheKey |-> <<>>,
     cached |-> <<>>, awaits |-> 0, resp |-> resp,
     prior |-> {j \in Calls : calls[j].pc = "done"}]

\* The Worker's 400 response to an invalid request.
ValidationResponse(message) ==
    [status |-> 400, body |-> [error |-> message, code |-> "VALIDATION_ERROR"]]

\* Mutant of ErrorResponse: the error object carries no code.
ErrorResponseNoCode(message) == [status |-> 500, body |-> [error |-> message]]

\* The Durable Object's 500 response, passed through by the Worker.
ErrorResponse(message) ==
    [status |-> 500,
     body |-> [error |-> message, code |-> "DURABLE_OBJECT_ERROR"]]

\* The Worker's 500 response to an error thrown in its /generate branch
\* (lines 113-124).
WorkerErrorResponse(message) ==
    [status |-> 500,
     body |-> [error |-> message, code |-> "WORKER_ERROR", details |-> "stack"]]

\* crypto.subtle.importKey('raw', keyData, HMAC) in generateSignature: an
\* undefined secret encodes like '', and a key of length zero is refused
\* with a DataError (Web Crypto, HMAC import).
ImportKeyFails(secret) == secret = <<>> \/ secret = <<"">>

\* The Worker's answer to the entry returned by the Durable Object: the
\* entry signed with env.SIGNING_SECRET and status 200, or the 500 of the
\* catch block when generateSignature throws (lines 87-124).
SignedResponse(entry, cached) ==
    IF ImportKeyFails(env.SIGNING_SECRET)
    THEN WorkerErrorResponse("Imported HMAC key length (0) must be a non-zero value")
    ELSE
    [status |-> 200,
     body |-> [content |-> entry.content, model |-> entry.model,
               seed |-> entry.seed,
               signature |-> generateSignature(entry.request_hash,
                                 entry.content, env.SIGNING_SECRET),
               cached |-> cached, request_hash |-> entry.request_hash]]

\* POST /generate arrives at the Worker: validate; answer 400, or derive the
\* cache key and forward the request to the Durable Object of that name.
Submit(r) ==
    /\ Len(calls) < MaxCalls
    /\ LET validation == validateRequest(r) IN
       calls' = Append(calls,
           IF validation # <<>>
           THEN NewCall(r, "done", <<>>, <<ValidationResponse(validation[1])>>)
           ELSE NewCall(r, "routed", generateCacheKey(r), <<>>))
    /\ UNCHANGED <<env, now, storage, pendingRequests, upstream, cleanups>>

\* ------------------------------------- Durable Object: getOrGenerateResponse
\* callOpenAI: the request sent upstream (defaults by ||).
OpenAIRequest(req) ==
    [model |-> req.model,
     messages |-> << [role |-> "system",
                      content |-> OrFalsy(req.system_prompt,
                                     Str("You are a helpful assistant."))],
                     [role |-> "user", content |-> req.prompt] >>,
     temperature |-> Num(0),
     seed |-> req.seed,
     max_tokens |-> OrFalsy(req.max_tokens, Num(DefaultMaxTokens))]

\* Mutant of TouchEntry: a hit also renews the creation time.
TouchEntryRenewed(cached) ==
    [cached EXCEPT !.last_accessed = now, !.hit_count = cached.hit_count + 1,
                   !.cached_at = now]

\* The cache-hit update of the entry read (lines 184-185).
TouchEntry(cached) ==
    [cached EXCEPT !.last_accessed = now, !.hit_count = cached.hit_count + 1]

\* Mutant of HitResponse: the hit is reported as a fresh generation.
HitResponseUncached(cached) == SignedResponse(cached, FALSE)

\* What a cache hit returns (line 189).
HitResponse(cached) == SignedResponse(cached, TRUE)

\* Mutant of HasPending: the pending map is not consulted.
HasPendingIgnored(pending, cacheKey) == FALSE

\* Whether a generation is registered for the key (lines 193-194).
HasPending(pending, cacheKey) == MapHas(pending, cacheKey)

\* Mutant of RegisterPending: the promise is not stored.
RegisterPendingDropped(pending, cacheKey, i) == pending

\* Mutant of RegisterPending: the promise registered is not the one the
\* generation settles.
RegisterPendingUnsettled(pending, cacheKey, i) == MapPut(pending, cacheKey, 0)

\* this.pendingRequests.set(cacheKey, generationPromise) (line 206); the
\* promise is named by the request that created it.
RegisterPending(pending, cacheKey, i) == MapPut(pending, cacheKey, i)

\* if (cached) (line 182).
CacheHit(cached) == cached # <<>>

\* The object takes request i: it parses the body, derives cacheKey and
\* calls this.state.storage.get (lines 136, 177-180).
Deliver(i) ==
    /\ At(i, "routed")
    /\ InputGateOpen(DOof(i))
    /\ LET d == DOof(i)
           k == generateCacheKey(ForwardedRequest(calls[i].req))
       IN  calls' = [calls EXCEPT
              ![i].pc = "reading",
              ![i].cacheKey = k,
              ![i].cached = IF MapHas(storage[d], k)
                            THEN <<storage[d][k]>> ELSE <<>>]
    /\ UNCHANGED <<env, now, storage, pendingRequests, upstream, cleanups>>

\* storage.get has returned to request i (lines 182-206). A hit updates the
\* statistics of the entry read, writes it back and answers with
\* cached: true. A miss joins the pending generation of the key, or starts
\* one: generateAndCache runs up to fetch() and its promise is registered.
Lookup(i) ==
    /\ At(i, "reading")
    /\ LET d == DOof(i)
           k == calls[i].cacheKey
           req == ForwardedRequest(calls[i].req)
       IN  IF CacheHit(calls[i].cached)
           THEN LET cached == TouchEntry(calls[i].cached[1]) IN
                /\ storage' = [storage EXCEPT ![d] = MapPut(@, k, cached)]
                /\ calls' = [calls EXCEPT ![i].pc = "done",
                                 ![i].cached = <<>>,
                                 ![i].resp = <<HitResponse(cached)>>]
                /\ UNCHANGED <<pendingRequests, upstream>>
           ELSE IF HasPending(pendingRequests[d], k)
           THEN /\ calls' = [calls EXCEPT ![i].pc = "joined",
                                 ![i].awaits = pendingRequests[d][k]]
                /\ UNCHANGED <<storage, pendingRequests, upstream>>
           ELSE /\ calls' = [calls EXCEPT ![i].pc = "upstream"]
                /\ upstream' = Append(upstream,
                       [by |-> i, key |-> k,
                        request |-> OpenAIRequest(req)])
                /\ pendingRequests' =
                       [pendingRequests EXCEPT ![d] = RegisterPending(@, k, i)]
                /\ UNCHANGED storage
    /\ UNCHANGED <<env, now, cleanups>>

\* ------------------------------------------- generateAndCache, callOpenAI
\* The CachedEntry built by generateAndCache (lines 226-234).
NewEntry(content, req, cacheKey) ==
    [content |-> content, model |-> req.model, seed |-> req.seed,
     request_hash |-> cacheKey, cached_at |-> now, last_accessed |-> now,
     hit_count |-> 0]

\* Mutant of ClearPending: no finally block, the promise stays registered.
ClearPendingKept(pending, cacheKey) == pending

\* finally { this.pendingRequests.delete(cacheKey) } (lines 211-214).
ClearPending(pending, cacheKey) == MapDelete(pending, cacheKey)

\* What the initiator returns when its generation promise fulfils
\* (line 210).
InitiatorResponse(entry) == SignedResponse(entry, FALSE)

\* Mutant of JoinerResponse: the joiner is reported as a fresh generation.
JoinerResponseUncached(entry) == SignedResponse(entry, FALSE)

\* What a joiner of a fulfilled generation promise returns (line 198).
JoinerResponse(entry) == SignedResponse(entry, TRUE)

\* What the initiator answers when its generation promise rejects: the
\* error passes the finally block to the object's fetch, which answers 500
\* with its message (lines 209-214, 141-149).
InitiatorError(message) == ErrorResponse(message)

\* Mutant of JoinerError: the joiner loses the message of the error.
JoinerErrorGeneric(message) == ErrorResponse("Internal server error")

\* What a joiner answers when the promise it awaits rejects: await rethrows
\* the same error to the object's fetch (lines 196, 141-149).
JoinerError(message) == ErrorResponse(message)

Fulfilled(entry) == [ok |-> TRUE, entry |-> entry]
Rejected(message) == [ok |-> FALSE, error |-> message]

\* The generation promise of request i settles. Its awaiters resume in the
\* same turn: the initiator returns or rethrows and clears the pending map
\* in its finally block; every joiner returns the same entry or rethrows
\* the same error.
Settle(i, outcome) ==
    /\ calls' = [j \in Calls |->
          IF j = i
          THEN [calls[j] EXCEPT !.pc = "done",
                   !.resp = IF outcome.ok
                            THEN <<InitiatorResponse(outcome.entry)>>
                            ELSE <<InitiatorError(outcome.error)>>]
          ELSE IF calls[j].pc = "joined" /\ calls[j].awaits = i
          THEN [calls[j] EXCEPT !.pc = "done",
                   !.resp = IF outcome.ok
                            THEN <<JoinerResponse(outcome.entry)>>
                            ELSE <<JoinerError(outcome.error)>>]
          ELSE calls[j]]
    /\ pendingRequests' =
          [pendingRequests EXCEPT
              ![DOof(i)] = ClearPending(@, calls[i].cacheKey)]

\* fetch() rejects, or the API answers with a status that is not ok and
\* callOpenAI throws (lines 263-276).
UpstreamError(i) ==
    /\ At(i, "upstream")
    /\ InputGateOpen(DOof(i))
    /\ Settle(i, Rejected("OpenAI API error"))
    /\ UNCHANGED <<env, now, storage, upstream, cleanups>>

\* The API answers ok with a body from which extractContent throws
\* (lines 278-279, 88-96).
UpstreamMalformed(i) ==
    /\ At(i, "upstream")
    /\ InputGateOpen(DOof(i))
    /\ \E openaiResponse \in OpenAIResponses :
          LET extracted == extractContent(openaiResponse) IN
          /\ ~extracted.ok
          /\ Settle(i, Rejected(extracted.error))
    /\ UNCHANGED <<env, now, storage, upstream, cleanups>>

\* The API answers ok with content: the entry is built and put, and the
\* promise fulfils with it (lines 278-240).
UpstreamContent(i) ==
    /\ At(i, "upstream")
    /\ InputGateOpen(DOof(i))
    /\ \E openaiResponse \in OpenAIResponses :
          LET extracted == extractContent(openaiResponse)
              entry == NewEntry(extracted.content,
                                ForwardedRequest(calls[i].req),
                                calls[i].cacheKey)
          IN  /\ extracted.ok
              /\ storage' = [storage EXCEPT
                    ![DOof(i)] = MapPut(@, calls[i].cacheKey, entry)]
              /\ Settle(i, Fulfilled(entry))
    /\ UNCHANGED <<env, now, upstream, cleanups>>

\* The API answers ok with content but storage.put rejects (a value the
\* store refuses): nothing is stored and the promise rejects (line 237).
UpstreamContentPutFails(i) ==
    /\ At(i, "upstream")
    /\ InputGateOpen(DOof(i))
    /\ \E openaiResponse \in OpenAIResponses :
          /\ extractContent(openaiResponse).ok
          /\ Settle(i, Rejected("storage put failed"))
    /\ UNCHANGED <<env, now, storage, upstream, cleanups>>

\* ------------------------------------------------ cleanupExpiredEntries
\* The retention horizon in milliseconds (lines 290-291).
RetentionMs ==
    LET retentionDays ==
            IF env.CACHE_RETENTION_DAYS = <<>>
            THEN DefaultRetentionDays
            ELSE IF env.CACHE_RETENTION_DAYS[1] = <<>>
            THEN DefaultRetentionDays
            ELSE ParseInt(env.CACHE_RETENTION_DAYS[1])
    IN  retentionDays * DayMs

\* Mutant of Expired: an entry cached exactly at the cutoff is deleted too.
ExpiredInclusive(store) ==
    LET cutoffTime == now - RetentionMs
    IN  { k \in DOMAIN store : store[k].cached_at <= cutoffTime }

\* The keys the sweep deletes from a store (lines 298-303).
Expired(store) ==
    LET cutoffTime == now - RetentionMs
    IN  { k \in DOMAIN store : store[k].cached_at < cutoffTime }

\* POST /cleanup handled by the fetch of Durable Object d (lines 153-167):
\* list, delete what is expired, answer the count.
DOCleanup(d) ==
    /\ InputGateOpen(d)
    /\ LET gone == Expired(storage[d]) IN
       /\ storage' = [storage EXCEPT
             ![d] = [k \in (DOMAIN @) \ gone |-> @[k]]]
       /\ cleanups' = Append(cleanups,
             [status |-> 200,
              body |-> [deleted |-> Cardinality(gone), status |-> "ok"]])
    /\ UNCHANGED <<env, now, pendingRequests, calls, upstream>>

\* POST /cleanup handled by the Worker (part_001 lines 127-154): it answers
\* a fixed message and calls no Durable Object.
WorkerCleanup ==
    /\ Len(cleanups) < MaxCleanups
    /\ cleanups' = Append(cleanups,
          [by |-> "worker", status |-> 200,
           body |-> [status |-> "ok",
                     message |-> "Cleanup endpoint - implement cron trigger for automatic cleanup"]])
    /\ UNCHANGED <<env, now, storage, pendingRequests, calls, upstream>>

\* The Worker's scheduled handler (part_001 lines 167-172): two lines on the
\* console.
Scheduled ==
    /\ Len(cleanups) < MaxCleanups
    /\ cleanups' = Append(cleanups,
          [by |-> "scheduled",
           log |-> << "Running scheduled cleanup...",
                      "Cleanup scheduled task - implement DO iteration" >>])
    /\ UNCHANGED <<env, now, storage, pendingRequests, calls, upstream>>

\* ------------------------------------------------------------------ time
Tick ==
    /\ now < MaxDays * DayMs
    /\ now' = now + DayMs
    /\ UNCHANGED <<env, storage, pendingRequests, calls, upstream, cleanups>>

\* ---------------------------------------------------------- specifications
\* The gateway as deployed: every request comes through the Worker, which
\* forwards only /generate to a Durable Object.
Next ==
    \/ \E r \in GenerateRequests : Submit(r)
    \/ \E i \in Calls : Deliver(i)
    \/ \E i \in Calls : Lookup(i)
    \/ \E i \in Calls : UpstreamError(i)
    \/ \E i \in Calls : UpstreamMalformed(i)
    \/ \E i \in Calls : UpstreamContent(i)
    \/ \E i \in Calls : UpstreamContentPutFails(i)
    \/ Tick

Spec == Init /\ [][Next]_vars

\* The Durable Objects with their own /cleanup route called directly. A
\* generation fails on the upstream's status or on the store write; the
\* upstream bodies extractContent refuses are part of Next, NextGateway,
\* NextValidation and NextFingerprint.
NextCoordinator ==
    \/ \E r \in GenerateRequests : Submit(r)
    \/ \E i \in Calls : Deliver(i)
    \/ \E i \in Calls : Lookup(i)
    \/ \E i \in Calls : UpstreamError(i)
    \/ \E i \in Calls : UpstreamContent(i)
    \/ \E i \in Calls : UpstreamContentPutFails(i)
    \/ Tick
    \/ \E d \in DOIds : Len(cleanups) < MaxCleanups /\ DOCleanup(d)

SpecCoordinator ==
    InitWith(ShortRetentionEnv, GenerateRequests) /\ [][NextCoordinator]_vars

\* The gateway as deployed with its cleanup entry points: POST /cleanup and
\* the cron trigger, both handled by the Worker.
NextGateway ==
    \/ Next
    \/ WorkerCleanup
    \/ Scheduled

SpecGateway ==
    InitWith(ShortRetentionEnv, GenerateRequests) /\ [][NextGateway]_vars

\* The gateway receiving every kind of body validateRequest must judge, in a
\* deployment with or without a signing secret.
NextValidation ==
    \/ \E r \in ValidationRequests : Len(calls) < MaxBodies /\ Submit(r)
    \/ \E i \in Calls : Deliver(i)
    \/ \E i \in Calls : Lookup(i)
    \/ \E i \in Calls : UpstreamError(i)
    \/ \E i \in Calls : UpstreamMalformed(i)
    \/ \E i \in Calls : UpstreamContent(i)
    \/ \E i \in Calls : UpstreamContentPutFails(i)

SpecValidation ==
    /\ \E e \in {DefaultEnv, NoSecretEnv, EmptySecretEnv} :
          InitWith(e, ValidationRequests)
    /\ [][NextValidation]_vars

\* The gateway receiving valid requests with different fingerprint fields.
NextFingerprint ==
    \/ \E r \in FingerprintRequests : Len(calls) < MaxBodies /\ Submit(r)
    \/ \E i \in Calls : Deliver(i)
    \/ \E i \in Calls : Lookup(i)
    \/ \E i \in Calls : UpstreamError(i)
    \/ \E i \in Calls : UpstreamMalformed(i)
    \/ \E i \in Calls : UpstreamContent(i)
    \/ \E i \in Calls : UpstreamContentPutFails(i)

SpecFingerprint ==
    InitWith(DefaultEnv, FingerprintRequests) /\ [][NextFingerprint]_vars

\* A Durable Object whose /cleanup route is called again and again while
\* requests are generated, served and fail.
NextSweep ==
    \/ \E r \in GenerateRequests : Len(calls) < MaxBodies /\ Submit(r)
    \/ \E i \in Calls : Deliver(i)
    \/ \E i \in Calls : Lookup(i)
    \/ \E i \in Calls : UpstreamError(i)
    \/ \E i \in Calls : UpstreamContent(i)
    \/ Tick
    \/ \E d \in DOIds : Len(cleanups) < MaxSweeps /\ DOCleanup(d)

SpecSweep ==
    InitWith(ShortRetentionEnv, GenerateRequests) /\ [][NextSweep]_vars

\* Two fingerprints side by side: their requests, generations, hits and
\* the sweeps of their Durable Objects interleave.
NextIsolation ==
    \/ \E r \in IsolationRequests : Len(calls) < MaxBodies /\ Submit(r)
    \/ \E i \in Calls : Deliver(i)
    \/ \E i \in Calls : Lookup(i)
    \/ \E i \in Calls : UpstreamError(i)
    \/ \E i \in Calls : UpstreamContent(i)
    \/ Tick
    \/ \E d \in DOIds : Len(cleanups) < MaxCleanups /\ DOCleanup(d)

SpecIsolation ==
    InitWith(ShortRetentionEnv, IsolationRequests) /\ [][NextIsolation]_vars

\* The gateway receiving valid requests that give or leave out the optional
\* parameters.
NextDefaults ==
    \/ \E r \in DefaultsRequests : Len(calls) < MaxBodies /\ Submit(r)
    \/ \E i \in Calls : Deliver(i)
    \/ \E i \in Calls : Lookup(i)
    \/ \E i \in Calls : UpstreamError(i)
    \/ \E i \in Calls : UpstreamMalformed(i)
    \/ \E i \in Calls : UpstreamContent(i)
    \/ \E i \in Calls : UpstreamContentPutFails(i)

SpecDefaults ==
    InitWith(DefaultEnv, DefaultsRequests) /\ [][NextDefaults]_vars

\* The Durable Object under the assumption that what it awaits answers: the
\* store returns every read (the object resumes the request that awaits
\* storage.get), and the upstream answers every call in one of the ways it
\* can (the event is delivered once the input gate is open).
StoreAnswers(i) == i \in Calls /\ Lookup(i)
UpstreamAnswers(i) ==
    /\ i \in Calls
    /\ \/ UpstreamError(i)
       \/ UpstreamMalformed(i)
       \/ UpstreamContent(i)
       \/ UpstreamContentPutFails(i)

NextLive ==
    \/ \E r \in GenerateRequests : Len(calls) < MaxBodies /\ Submit(r)
    \/ \E i \in Calls : Deliver(i)
    \/ \E i \in Calls : StoreAnswers(i)
    \/ \E i \in Calls : UpstreamAnswers(i)

SpecLive ==
    /\ Init
    /\ [][NextLive]_vars
    /\ \A i \in 1..MaxBodies : WF_vars(StoreAnswers(i))
    /\ \A i \in 1..MaxBodies : WF_vars(UpstreamAnswers(i))

\* ------------------------------------------------------------ properties
Done(i) == calls[i].pc = "done"
Resp(i) == calls[i].resp[1]
Ok(i) == Done(i) /\ Resp(i).status = 200
Failed(i) == Done(i) /\ Resp(i).status = 500
SameRequest(i, j) == calls[i].req = calls[j].req

\* Two requests overlap in time: neither was answered before the other
\* arrived. Sequential(i, j): i was answered before j arrived.
Concurrent(i, j) ==
    i # j /\ i \notin calls[j].prior /\ j \notin calls[i].prior
Sequential(i, j) == i \in calls[j].prior

\* The requests whose upstream call for key k in object d is in flight.
InFlight(d, k) ==
    { i \in Calls : At(i, "upstream") /\ DOof(i) = d /\ calls[i].cacheKey = k }

\* The upstream calls made so far for key k.
UpstreamCallsFor(k) == { n \in 1..Len(upstream) : upstream[n].key = k }

\* C1: in every reachable state and for every fingerprint, at most one
\* upstream generation call is in flight in a Coordinator instance, and a
\* call is in flight only while a PendingGeneration naming it is registered
\* for that fingerprint.
C1_AtMostOneInFlight ==
    \A d \in DOIds : \A k \in DOIds :
        /\ Cardinality(InFlight(d, k)) <= 1
        /\ \A i \in InFlight(d, k) :
              /\ MapHas(pendingRequests[d], k)
              /\ pendingRequests[d][k] = i

\* C1 witness: an upstream call is in flight while two other callers for the
\* same fingerprint have arrived and wait on it.
C1_Witness ==
    \E i \in Calls : \E j \in Calls : \E h \in Calls :
        /\ j # h
        /\ At(i, "upstream")
        /\ At(j, "joined") /\ calls[j].awaits = i
        /\ At(h, "joined") /\ calls[h].awaits = i

\* C2: for N calls with identical request parameters, while no upstream call
\* has failed and no sweep has run, at most one upstream invocation has been
\* made, and exactly one once a caller has been answered.
C2_ExactlyOneUpstreamCall ==
    \A k \in DOIds :
        LET mine == { i \in Calls : calls[i].key = k } IN
        ( /\ cleanups = <<>>
          /\ \A i \in mine : \A j \in mine : SameRequest(i, j)
          /\ \A i \in mine : ~Failed(i) )
        => /\ Cardinality(UpstreamCallsFor(k)) <= 1
           /\ (\E i \in mine : Ok(i)) => Cardinality(UpstreamCallsFor(k)) = 1

\* C2 witness: three concurrent callers with identical parameters have all
\* been answered successfully, after one upstream call, with no sweep.
C2_Witness ==
    /\ Len(calls) >= 3
    /\ cleanups = <<>>
    /\ \A i \in Calls : Ok(i) /\ calls[i].prior = {}
    /\ \A i \in Calls : \A j \in Calls : SameRequest(i, j)
    /\ Len(upstream) = 1

\* C3: concurrent calls with identical request parameters that return
\* successfully all receive the same content and the same request_hash.
C3_ConcurrentSameContent ==
    \A i \in Calls : \A j \in Calls :
        (Concurrent(i, j) /\ SameRequest(i, j) /\ Ok(i) /\ Ok(j))
        => /\ Resp(i).body.content = Resp(j).body.content
           /\ Resp(i).body.request_hash = Resp(j).body.request_hash

\* C3 witness: an initiator and a concurrent caller that joined its
\* generation have both been answered successfully.
C3_Witness ==
    \E i \in Calls : \E j \in Calls :
        /\ Concurrent(i, j) /\ SameRequest(i, j) /\ Ok(i) /\ Ok(j)
        /\ calls[j].awaits = i

\* C4: among concurrent successful calls with identical request parameters
\* at most one response carries cached = false.
C4_AtMostOneUncached ==
    \A i \in Calls : \A j \in Calls :
        (Concurrent(i, j) /\ SameRequest(i, j) /\ Ok(i) /\ Ok(j))
        => (Resp(i).body.cached \/ Resp(j).body.cached)

\* C4 witness: of three concurrent successful calls the initiator is answered
\* cached = false, a joiner cached = true and a later store hit cached = true.
C4_Witness ==
    \E i \in Calls : \E j \in Calls : \E h \in Calls :
        /\ Concurrent(i, j) /\ Concurrent(i, h) /\ Concurrent(j, h)
        /\ Ok(i) /\ Ok(j) /\ Ok(h)
        /\ ~Resp(i).body.cached
        /\ calls[j].awaits = i /\ Resp(j).body.cached
        /\ calls[h].awaits = 0 /\ Resp(h).body.cached

\* C5: two sequential calls with the same request that both succeed return
\* identical content and identical signature.
C5_SequentialDeterminism ==
    \A i \in Calls : \A j \in Calls :
        (Sequential(i, j) /\ SameRequest(i, j) /\ Ok(i) /\ Ok(j))
        => /\ Resp(i).body.content = Resp(j).body.content
           /\ Resp(i).body.signature = Resp(j).body.signature

\* C5 witness: a second call, made on a later day than the first was
\* answered, has succeeded too.
C5_Witness ==
    \E i \in Calls : \E j \in Calls :
        /\ Sequential(i, j) /\ SameRequest(i, j) /\ Ok(i) /\ Ok(j)
        /\ \E d \in DOIds :
              /\ MapHas(storage[d], calls[j].cacheKey)
              /\ storage[d][calls[j].cacheKey].last_accessed
                    > storage[d][calls[j].cacheKey].cached_at

\* The step in which request i resumes with what it read from the store.
Delivered(i) == At(i, "reading") /\ calls'[i].pc # "reading"

\* C6: whenever the store holds an entry for the fingerprint when the
\* Coordinator reads it, the caller is answered with that entry and
\* cached = true and no upstream call is started; and when the first caller
\* for a fingerprint is answered successfully before any other arrives, it
\* is answered cached = false and every later successful one cached = true.
C6_HitServedFromStore ==
    [][ /\ \A i \in Calls :
              (Delivered(i) /\ MapHas(storage[DOof(i)], calls'[i].cacheKey))
              => LET entry == storage[DOof(i)][calls'[i].cacheKey] IN
                 /\ calls'[i].pc = "done"
                 /\ calls'[i].resp[1].status = 200
                 /\ calls'[i].resp[1].body.cached
                 /\ calls'[i].resp[1].body.content = entry.content
                 /\ calls'[i].resp[1].body.request_hash = entry.request_hash
                 /\ calls'[i].resp[1].body.model = entry.model
                 /\ calls'[i].resp[1].body.seed = entry.seed
                 /\ upstream' = upstream
                 /\ pendingRequests' = pendingRequests
        /\ \A i \in Calls : \A j \in Calls :
              ( /\ calls'[i].prior = {}
                /\ \A h \in 1..Len(calls') : h # i => i \in calls'[h].prior
                /\ SameRequest(i, j)
                /\ calls'[i].pc = "done" /\ calls'[i].resp[1].status = 200
                /\ calls'[j].pc = "done" /\ calls'[j].resp[1].status = 200
                /\ i # j )
              => /\ ~calls'[i].resp[1].body.cached
                 /\ calls'[j].resp[1].body.cached
      ]_vars

\* C6 witness: the first call was answered cached = false before the second
\* arrived, and the second has been answered cached = true from the store.
C6_Witness ==
    \E i \in Calls : \E j \in Calls :
        /\ calls[i].prior = {} /\ Sequential(i, j) /\ SameRequest(i, j)
        /\ Ok(i) /\ ~Resp(i).body.cached
        /\ Ok(j) /\ Resp(j).body.cached /\ calls[j].awaits = 0
        /\ storage[DOof(j)][calls[j].cacheKey].hit_count = 1

\* C7: once an entry has been persisted for a fingerprint, no later
\* operation changes the content stored under that fingerprint for as long
\* as the entry exists, and the entry is not created again over itself: its
\* creation time stays and its hit count is never reset.
C7_ContentImmutable ==
    [][ \A d \in DOIds : \A k \in DOMAIN storage[d] :
           MapHas(storage'[d], k)
           => /\ storage'[d][k].content = storage[d][k].content
              /\ storage'[d][k].cached_at = storage[d][k].cached_at
              /\ storage'[d][k].hit_count >= storage[d][k].hit_count
      ]_vars

\* C7 witness: an entry was persisted, swept, generated again by a further
\* upstream call and has since served a hit.
C7_Witness ==
    /\ Len(upstream) >= 2
    /\ \E d \in DOIds : \E k \in DOMAIN storage[d] : storage[d][k].hit_count >= 1
    /\ \E n \in 1..Len(cleanups) : cleanups[n].body.deleted >= 1

\* C8: when the generation for a fingerprint fails nothing is written to
\* the store, and a later identical request that finds no entry and no
\* generation in flight starts a new upstream call of its own.
C8_NoPoisonedCache ==
    [][ /\ \A i \in Calls :
              ( /\ At(i, "upstream")
                /\ calls'[i].pc = "done" /\ calls'[i].resp[1].status = 500 )
              => storage' = storage
        /\ \A j \in Calls :
              ( /\ Delivered(j)
                /\ \E i \in calls[j].prior : Failed(i) /\ SameRequest(i, j)
                /\ ~MapHas(storage[DOof(j)], calls'[j].cacheKey)
                /\ InFlight(DOof(j), calls'[j].cacheKey) = {} )
              => /\ calls'[j].pc = "upstream"
                 /\ Len(upstream') = Len(upstream) + 1
                 /\ upstream'[Len(upstream')].by = j
      ]_vars

\* C8 witness: a request made after an identical one failed on the upstream
\* has started its own upstream call, with nothing in the store.
C8_Witness ==
    \E i \in Calls : \E j \in Calls :
        /\ Sequential(i, j) /\ SameRequest(i, j)
        /\ Failed(i) /\ Resp(i).body.error = "OpenAI API error"
        /\ At(j, "upstream")
        /\ \E n \in 1..Len(upstream) : upstream[n].by = i
        /\ \E n \in 1..Len(upstream) : upstream[n].by = j
        /\ \A d \in DOIds : storage[d] = EmptyMap

\* C9: every caller that attached to a pending generation is answered with
\* the outcome of its initiator: the same entry when the generation
\* succeeded, the same error when it failed.
C9_JoinersShareOutcome ==
    \A j \in Calls :
        calls[j].awaits # 0
        => LET i == calls[j].awaits IN
           /\ Done(j) <=> Done(i)
           /\ Done(j) =>
                /\ Resp(j).status = Resp(i).status
                /\ Resp(j).status = 200 =>
                      /\ Resp(j).body.content = Resp(i).body.content
                      /\ Resp(j).body.request_hash = Resp(i).body.request_hash
                      /\ Resp(j).body.signature = Resp(i).body.signature
                      /\ Resp(j).body.model = Resp(i).body.model
                      /\ Resp(j).body.seed = Resp(i).body.seed
                /\ Resp(j).status = 500 => Resp(j).body = Resp(i).body

\* C9 witness: a joiner has been answered with the error of its initiator,
\* whose upstream response had no usable content.
C9_Witness ==
    \E j \in Calls :
        /\ calls[j].awaits # 0
        /\ Failed(j)
        /\ Resp(j).body.error = "Invalid content in OpenAI response"
        /\ Resp(calls[j].awaits).body.error = Resp(j).body.error

\* C10: a fingerprint is never left pending: a PendingGeneration is
\* registered only while the generation of the request that registered it
\* is still running, whichever way that generation ends.
C10_PendingAlwaysCleared ==
    \A d \in DOIds : \A k \in DOMAIN pendingRequests[d] :
        LET i == pendingRequests[d][k] IN
        /\ i \in Calls
        /\ At(i, "upstream")
        /\ DOof(i) = d /\ calls[i].cacheKey = k

\* C10 witness: a generation ended in a store write failure, the pending
\* map is empty again and a later caller has started a fresh attempt.
C10_Witness ==
    \E i \in Calls : \E j \in Calls :
        /\ Failed(i) /\ Resp(i).body.error = "storage put failed"
        /\ Sequential(i, j)
        /\ Ok(j) /\ ~Resp(j).body.cached
        /\ \A d \in DOIds : pendingRequests[d] = EmptyMap

\* A request the gateway must reject: model or prompt missing, empty or not
\* a string, seed not a number, or temperature given (not undefined, not
\* null) and not the number 0.
MustReject(r) ==
    \/ r.model.type # "string" \/ r.model.str = ""
    \/ r.prompt.type # "string" \/ r.prompt.str = ""
    \/ r.seed.type # "number"
    \/ r.temperature \notin {Undefined, Null, Num(0)}

\* C11: a /generate request whose model or prompt is missing, empty or not a
\* string, whose seed is not a number, or whose temperature is given and not
\* 0 is answered 400 with code VALIDATION_ERROR in the step that receives
\* it; no fingerprint is derived for it, no Durable Object ever takes it, and
\* no store, pending map or upstream call changes on its account.
C11_InvalidRejected ==
    [][ \A i \in 1..Len(calls') :
           MustReject(calls'[i].req)
           => /\ calls'[i].pc = "done"
              /\ calls'[i].resp[1].status = 400
              /\ calls'[i].resp[1].body.code = "VALIDATION_ERROR"
              /\ calls'[i].key = <<>>
              /\ calls'[i].cacheKey = <<>>
              /\ \A n \in 1..Len(upstream') : upstream'[n].by # i
              /\ i \notin Calls
                    => /\ storage' = storage
                       /\ pendingRequests' = pendingRequests
                       /\ upstream' = upstream
      ]_vars

\* C11 witness: a request with temperature 0.7 has been answered 400 while
\* the generation of a valid request, the only upstream call, is in flight.
C11_Witness ==
    \E i \in Calls : \E h \in Calls :
        /\ calls[i].req.temperature = Number("0.7")
        /\ Done(i) /\ Resp(i).status = 400
        /\ Resp(i).body.code = "VALIDATION_ERROR"
        /\ At(h, "upstream")
        /\ Len(upstream) = 1

\* The fields of a request that make its fingerprint, with the defaults in
\* place of the optional fields left out.
FingerprintTuple(r) ==
    << r.model, r.prompt, OrElse(r.system_prompt, Str("")),
       OrElse(r.temperature, Num(0)), r.seed,
       OrElse(r.max_tokens, Num(DefaultMaxTokens)) >>

\* The requests the Worker has routed.
Routed == { i \in Calls : calls[i].key # <<>> }

\* C12: two requests get the same fingerprint from the Worker if and only if
\* they have the same tuple (model, prompt, systemPrompt, temperature, seed,
\* maxTokens) after the defaults are put in place of omitted fields.
C12_FingerprintIffSameTuple ==
    \A i \in Routed : \A j \in Routed :
        (calls[i].key = calls[j].key)
        <=> (FingerprintTuple(calls[i].req) = FingerprintTuple(calls[j].req))

\* Two requests that differ in their seed and in nothing else.
DifferOnlyInSeed(q, r) ==
    /\ q.seed # r.seed
    /\ [q EXCEPT !.seed = r.seed] = r

\* The upstream calls made for request i: by requests with its seed, routed
\* to its Durable Object under its key.
OwnUpstreamCalls(i) ==
    { n \in 1..Len(upstream) :
         /\ calls[upstream[n].by].req.seed = calls[i].req.seed
         /\ DOof(upstream[n].by) = DOof(i)
         /\ upstream[n].key = calls[i].cacheKey }

\* C13: requests that differ only in seed have different fingerprints, go
\* to different Durable Objects and are stored under different keys; a
\* request answered successfully was answered from an upstream call made
\* for its own seed, and the entries of its object carry its fingerprint
\* and no other.
C13_SeedsKeptApart ==
    \A i \in Routed : \A j \in Routed :
        DifferOnlyInSeed(calls[i].req, calls[j].req)
        => /\ calls[i].key # calls[j].key
           /\ DOof(i) # DOof(j)
           /\ (calls[i].cacheKey # <<>> /\ calls[j].cacheKey # <<>>)
                 => calls[i].cacheKey # calls[j].cacheKey
           /\ Ok(i) =>
                 /\ OwnUpstreamCalls(i) # {}
                 /\ Resp(i).body.request_hash = calls[i].cacheKey
                 /\ DOMAIN storage[DOof(i)] \subseteq {calls[i].cacheKey}
           /\ (Ok(i) /\ Ok(j)) =>
                 /\ OwnUpstreamCalls(i) \cap OwnUpstreamCalls(j) = {}
                 /\ Len(upstream) >= 2

\* C13 witness: the same request with seed 1 and with seed 2 have both been
\* answered successfully, each cached = false after its own upstream call.
C13_Witness ==
    \E i \in Calls : \E j \in Calls :
        /\ calls[i].req.seed = Num(1) /\ calls[j].req.seed = Num(2)
        /\ DifferOnlyInSeed(calls[i].req, calls[j].req)
        /\ Ok(i) /\ ~Resp(i).body.cached
        /\ Ok(j) /\ ~Resp(j).body.cached
        /\ Len(upstream) = 2

\* C14: every successful /generate response carries the signature of its
\* own request_hash and content under SIGNING_SECRET, and its request_hash
\* is the fingerprint of the request the caller sent.
C14_SignatureOverOwnFields ==
    \A i \in Calls :
        Ok(i)
        => /\ Resp(i).body.signature =
                  generateSignature(Resp(i).body.request_hash,
                                    Resp(i).body.content, env.SIGNING_SECRET)
           /\ Resp(i).body.request_hash = generateCacheKey(calls[i].req)

\* The three shapes of an answer to /generate.
SignedShape(resp) ==
    /\ resp.status = 200
    /\ DOMAIN resp.body =
          {"content", "model", "seed", "signature", "cached", "request_hash"}
    /\ resp.body.signature =
          generateSignature(resp.body.request_hash, resp.body.content,
                            env.SIGNING_SECRET)
ValidationShape(resp) ==
    /\ resp.status = 400
    /\ DOMAIN resp.body = {"error", "code"}
    /\ resp.body.code = "VALIDATION_ERROR"
    /\ resp.body.error # ""
ErrorShape(resp) ==
    /\ resp.status = 500
    /\ {"error", "code"} \subseteq DOMAIN resp.body
    /\ resp.body.code \in {"DURABLE_OBJECT_ERROR", "WORKER_ERROR"}
    /\ resp.body.error # ""

\* C18: every answer to /generate is a 200 with a signed response, a 400
\* with code VALIDATION_ERROR, or a 500 with an error message and a code;
\* and a request whose generation ended without an entry in the store (the
\* upstream or the store failed) is answered 500 with a code.
C18_ThreeOutcomes ==
    [][ \A i \in 1..Len(calls') :
           (calls'[i].pc = "done" /\ (i \in Calls => calls[i].pc # "done"))
           => LET resp == calls'[i].resp[1] IN
              /\ SignedShape(resp) \/ ValidationShape(resp) \/ ErrorShape(resp)
              /\ ( /\ i \in Calls
                    /\ calls[i].pc \in {"upstream", "joined"}
                    /\ ~MapHas(storage'[DOof(i)], calls[i].cacheKey) )
                 => ErrorShape(resp)
      ]_vars

\* C18 witness: the three outcomes side by side is more than two requests
\* give; here one request was answered 400 and another, whose store write
\* failed, 500 with the object's code.
C18_Witness ==
    \E i \in Calls : \E j \in Calls :
        /\ Done(i) /\ ValidationShape(Resp(i))
        /\ Done(j) /\ ErrorShape(Resp(j))
        /\ Resp(j).body.code = "DURABLE_OBJECT_ERROR"
        /\ Resp(j).body.error = "storage put failed"

\* C19: in a deployment whose signing secret is absent or empty no
\* /generate request gets as far as a Durable Object, so that, at the
\* least, no entry is ever stored.
C19_NoSecretNothingStored ==
    ImportKeyFails(env.SIGNING_SECRET)
    => \A d \in DOIds : storage[d] = EmptyMap

\* The step in which a cleanup is handled, and its record.
CleanupHandled == Len(cleanups') = Len(cleanups) + 1
Handled == cleanups'[Len(cleanups')]

\* C15: a sweep run by a Durable Object at time now with retention horizon
\* H deletes every entry of its store whose cached_at is before now - H,
\* leaves every other entry as it was, and answers the number it deleted.
C15_SweepDeletesExpired ==
    [][ CleanupHandled
        => \E d \in DOIds :
              LET gone == { k \in DOMAIN storage[d] :
                               storage[d][k].cached_at < now - RetentionMs }
              IN  /\ DOMAIN storage'[d] = (DOMAIN storage[d]) \ gone
                  /\ \A k \in DOMAIN storage'[d] : storage'[d][k] = storage[d][k]
                  /\ \A e \in DOIds \ {d} : storage'[e] = storage[e]
                  /\ Handled.status = 200
                  /\ Handled.body.deleted = Cardinality(gone)
                  /\ Handled.body.status = "ok"
      ]_vars

\* C15 witness: a sweep has deleted the one entry of its store, cached a day
\* before, and a later request has generated the entry again.
C15_Witness ==
    /\ \E n \in 1..Len(cleanups) : cleanups[n].body.deleted = 1
    /\ \E d \in DOIds : \E k \in DOMAIN storage[d] : storage[d][k].cached_at = DayMs
    /\ Len(upstream) = 2

\* C16: when the gateway has answered a POST /cleanup, the answer is 200
\* with status "ok" and, at the least, no store holds an entry past the
\* retention horizon any more.
C16_CleanupSweeps ==
    [][ (CleanupHandled /\ Handled.by = "worker")
        => /\ Handled.status = 200
           /\ Handled.body.status = "ok"
           /\ \A d \in DOIds : Expired(storage'[d]) = {}
      ]_vars

\* C17: a scheduled invocation sweeps every fingerprint: when it has run,
\* no store holds an entry past the retention horizon any more.
C17_ScheduledSweeps ==
    [][ (CleanupHandled /\ Handled.by = "scheduled")
        => \A d \in DOIds : Expired(storage'[d]) = {}
      ]_vars

\* C20: the store check, the pending check and the registration are one
\* decision: in the step in which a request registers its generation and
\* starts the upstream call, the store of its Durable Object holds no entry
\* for its fingerprint and no other generation is registered for it.
C20_AtomicDecision ==
    [][ \A i \in Calls :
           (calls[i].pc # "upstream" /\ calls'[i].pc = "upstream")
           => LET d == DOof(i)
                  k == calls'[i].cacheKey
              IN  /\ ~MapHas(storage[d], k)
                  /\ ~MapHas(storage'[d], k)
                  /\ ~MapHas(pendingRequests[d], k)
                  /\ MapHas(pendingRequests'[d], k)
                  /\ pendingRequests'[d][k] = i
      ]_vars

\* C20 witness: two requests arrived before any answer; one registered the
\* generation and was answered cached = false, the other read the store
\* after that generation completed and was served the entry, with one
\* upstream call in all.
C20_Witness ==
    \E i \in Calls : \E j \in Calls :
        /\ Concurrent(i, j) /\ SameRequest(i, j)
        /\ Ok(i) /\ ~Resp(i).body.cached
        /\ Ok(j) /\ Resp(j).body.cached /\ calls[j].awaits = 0
        /\ Len(upstream) = 1
        /\ cleanups = <<>>

\* The step removes the PendingGeneration registered under key k of Durable
\* Object d.
PendingRemoved(d, k) ==
    /\ MapHas(pendingRequests[d], k)
    /\ ~MapHas(pendingRequests'[d], k) \/ pendingRequests'[d][k] # pendingRequests[d][k]

\* C22: a PendingGeneration leaves the pending map only in the step in which
\* the request that registered it ends its generation (the upstream call
\* answered and, on success, the entry in the store), and it leaves in that
\* step whether the generation succeeded or failed; a step in which a
\* request joins, is served a hit or is swept removes none, and a request
\* that starts a generation registers under a key that was free, so that no
\* initiator ever removes what another registered.
C22_RemovedOnceByInitiator ==
    [][ /\ \A d \in DOIds : \A k \in DOMAIN pendingRequests[d] :
              PendingRemoved(d, k)
              => LET i == pendingRequests[d][k] IN
                 /\ At(i, "upstream") /\ calls'[i].pc = "done"
                 /\ DOof(i) = d /\ calls[i].cacheKey = k
                 /\ ~MapHas(pendingRequests'[d], k)
                 /\ calls'[i].resp[1].status = 200 => MapHas(storage'[d], k)
        /\ \A i \in Calls :
              (At(i, "upstream") /\ calls'[i].pc = "done")
              => /\ PendingRemoved(DOof(i), calls[i].cacheKey)
                 /\ pendingRequests[DOof(i)][calls[i].cacheKey] = i
        /\ \A i \in Calls :
              (calls[i].pc # "upstream" /\ calls'[i].pc = "upstream")
              => ~MapHas(pendingRequests[DOof(i)], calls'[i].cacheKey)
      ]_vars

\* C22 witness: one generation failed and its PendingGeneration was removed;
\* a later request registered its own, another caller joined it, and it was
\* removed in turn when that generation succeeded.
C22_Witness ==
    \E i \in Calls : \E j \in Calls : \E h \in Calls :
        /\ Failed(i) /\ calls[i].awaits = 0
        /\ Sequential(i, j) /\ Ok(j) /\ ~Resp(j).body.cached
        /\ calls[h].awaits = j /\ Ok(h)
        /\ Len(upstream) = 2
        /\ \A d \in DOIds : pendingRequests[d] = EmptyMap

\* The requests answered from the store of Durable Object d under key k in
\* state `cs` of calls: answered cached = true without having joined a
\* generation.
HitsOn(cs, d, k) ==
    { i \in 1..Len(cs) :
         /\ cs[i].pc = "done" /\ cs[i].key # <<>>
         /\ idFromName(cs[i].key) = d /\ cs[i].cacheKey = k
         /\ cs[i].awaits = 0
         /\ cs[i].resp[1].status = 200 /\ cs[i].resp[1].body.cached }

\* C23: the hit counter loses no update. After every step, an entry that no
\* sweep has removed carries as hit_count the number of requests answered
\* from the store under its key, however their arrivals overlapped; each hit
\* adds exactly one, and no step lowers the count of an entry that stays.
C23_NoLostHitUpdate ==
    [][ \A d \in DOIds :
           /\ \A k \in DOMAIN storage'[d] :
                 storage'[d][k].hit_count = Cardinality(HitsOn(calls', d, k))
           /\ \A k \in DOMAIN storage[d] :
                 MapHas(storage'[d], k)
                 => /\ storage'[d][k].hit_count >= storage[d][k].hit_count
                    /\ storage'[d][k].hit_count - storage[d][k].hit_count
                          = Cardinality(HitsOn(calls', d, k) \ HitsOn(calls, d, k))
      ]_vars

\* C23 witness: two requests that arrived before either was answered have
\* both been served from the store, and the entry counts two hits.
C23_Witness ==
    \E i \in Calls : \E j \in Calls :
        /\ Concurrent(i, j)
        /\ {i, j} \subseteq HitsOn(calls, DOof(i), calls[i].cacheKey)
        /\ storage[DOof(i)][calls[i].cacheKey].hit_count = 2

\* The step in which request i, the initiator of a generation, returns the
\* entry it generated.
InitiatorSucceeds(i) ==
    /\ At(i, "upstream")
    /\ calls'[i].pc = "done" /\ calls'[i].resp[1].status = 200

\* C24: in the step in which the initiator of a generation that succeeds is
\* answered, it is answered cached = false, and the store of its Durable
\* Object holds an entry with hit_count 0, cached_at and last_accessed both
\* the time of that step, request_hash the fingerprint of its request, and
\* the model and seed of its request.
C24_InitiatorEntry ==
    [][ \A i \in Calls :
           InitiatorSucceeds(i)
           => LET d == DOof(i)
                  k == calls[i].cacheKey
                  req == calls[i].req
                  body == calls'[i].resp[1].body
              IN  /\ ~body.cached
                  /\ MapHas(storage'[d], k)
                  /\ storage'[d][k].hit_count = 0
                  /\ storage'[d][k].cached_at = now'
                  /\ storage'[d][k].last_accessed = now'
                  /\ storage'[d][k].content \in Contents
                  /\ storage'[d][k].request_hash = generateCacheKey(req)
                  /\ storage'[d][k].model = req.model
                  /\ storage'[d][k].seed = req.seed
      ]_vars

\* The step in which request i is served the entry it read from the store.
HitServed(i) == Delivered(i) /\ CacheHit(calls[i].cached)

\* C25: the step that serves a hit leaves the content, model, seed,
\* request_hash and cached_at of the entry as they were, adds one to
\* hit_count, sets last_accessed, and changes no other entry; the entry is
\* past the retention horizon after the hit exactly if it was before, and a
\* sweep deletes an entry past the horizon however recently it was accessed.
C25_HitFrame ==
    [][ /\ \A i \in Calls :
              HitServed(i)
              => LET d == DOof(i)
                     k == calls[i].cacheKey
                 IN  /\ MapHas(storage[d], k) /\ MapHas(storage'[d], k)
                     /\ storage'[d][k] =
                           [storage[d][k] EXCEPT
                               !.last_accessed = now,
                               !.hit_count = storage[d][k].hit_count + 1]
                     /\ storage'[d][k].cached_at = storage[d][k].cached_at
                     /\ storage'[d][k].content = storage[d][k].content
                     /\ \A e \in DOIds : \A h \in DOMAIN storage[e] :
                           <<e, h>> # <<d, k>>
                           => MapHas(storage'[e], h) /\ storage'[e][h] = storage[e][h]
                     /\ \A e \in DOIds : DOMAIN storage'[e] = DOMAIN storage[e]
                     /\ (k \in Expired(storage'[d])) <=> (k \in Expired(storage[d]))
        /\ CleanupHandled
           => \A d \in DOIds : \A k \in DOMAIN storage'[d] :
                 storage'[d][k].cached_at >= now - RetentionMs
      ]_vars

\* C25 witness: an entry created a day ago has just served a hit, and is
\* past the retention horizon all the same.
C25_Witness ==
    \E d \in DOIds : \E k \in DOMAIN storage[d] :
        /\ storage[d][k].hit_count >= 1
        /\ storage[d][k].last_accessed = now
        /\ storage[d][k].cached_at < storage[d][k].last_accessed
        /\ k \in Expired(storage[d])

\* C26: a sweep leaves no entry past the retention horizon in its store,
\* and none appears until the clock advances, so that a second sweep at the
\* same time deletes nothing, answers 0 and leaves the store as it is; a
\* sweep leaves every entry that is not past the horizon as it was, changes
\* no pending map, no request and no upstream call; and a generation that
\* was in flight during a sweep still persists its entry when it succeeds.
C26_SweepIdempotent ==
    [][ /\ CleanupHandled
           => /\ \E d \in DOIds :
                    /\ Expired(storage'[d]) = {}
                    /\ \A e \in DOIds \ {d} : storage'[e] = storage[e]
              /\ \A d \in DOIds : \A k \in DOMAIN storage[d] :
                    storage[d][k].cached_at >= now - RetentionMs
                    => MapHas(storage'[d], k) /\ storage'[d][k] = storage[d][k]
              /\ (\A d \in DOIds : Expired(storage[d]) = {})
                    => storage' = storage /\ Handled.body.deleted = 0
              /\ pendingRequests' = pendingRequests
              /\ calls' = calls
              /\ upstream' = upstream
        /\ now' = now
           => \A d \in DOIds :
                 Expired(storage[d]) = {} => Expired(storage'[d]) = {}
        /\ \A i \in Calls :
              (InitiatorSucceeds(i) /\ cleanups # <<>>)
              => MapHas(storage'[DOof(i)], calls[i].cacheKey)
      ]_vars

\* C26 witness: the first sweep deleted an entry, a second sweep on the same
\* day deleted nothing, and a generation started after the first sweep has
\* persisted its entry.
C26_Witness ==
    /\ Len(cleanups) = 2
    /\ cleanups[1].body.deleted = 1
    /\ cleanups[2].body.deleted = 0
    /\ now = DayMs
    /\ Len(upstream) = 2
    /\ \E d \in DOIds : \E k \in DOMAIN storage[d] : storage[d][k].cached_at = DayMs

\* The messages of the errors extractContent throws.
ExtractErrors ==
    { extractContent(r).error : r \in { q \in OpenAIResponses : ~extractContent(q).ok } }

\* The step in which the generation of request i ends.
GenerationEnds(i) == At(i, "upstream") /\ calls'[i].pc = "done"

\* C27: a generation ends with an entry only when the upstream body carried
\* string content: every entry of the store and every successful answer
\* carries one of the upstream's contents. When the body had no choices or
\* a first choice without string content, the initiator and every caller
\* that joined it are answered 500 with the message of that error, the
\* store is left as it was with no entry for the fingerprint, and the
\* PendingGeneration is gone.
C27_MalformedUpstream ==
    [][ /\ \A i \in Calls :
              GenerationEnds(i)
              => LET d == DOof(i)
                     k == calls[i].cacheKey
                     resp == calls'[i].resp[1]
                 IN  /\ resp.status = 200 => resp.body.content \in Contents
                     /\ (resp.status = 500 /\ resp.body.error \in ExtractErrors)
                        => /\ resp.body.code = "DURABLE_OBJECT_ERROR"
                           /\ storage' = storage
                           /\ ~MapHas(storage'[d], k)
                           /\ ~MapHas(pendingRequests'[d], k)
                           /\ \A j \in Calls :
                                 (At(j, "joined") /\ calls[j].awaits = i)
                                 => /\ calls'[j].pc = "done"
                                    /\ calls'[j].resp[1] = resp
        /\ \A d \in DOIds : \A k \in DOMAIN storage'[d] :
              storage'[d][k].content \in Contents
      ]_vars

\* C27 witness: the upstream answered with an empty choice list; the
\* initiator and the two callers that had joined it were answered with that
\* error, and nothing is stored or pending.
C27_Witness ==
    \E i \in Calls : \E j \in Calls : \E h \in Calls :
        /\ j # h
        /\ calls[j].awaits = i /\ calls[h].awaits = i
        /\ Failed(i) /\ Failed(j) /\ Failed(h)
        /\ Resp(i).body.error = "No choices in OpenAI response"
        /\ Resp(j).body = Resp(i).body /\ Resp(h).body = Resp(i).body
        /\ \A d \in DOIds : storage[d] = EmptyMap /\ pendingRequests[d] = EmptyMap

\* The upstream calls made on behalf of request i.
UpstreamCallsBy(i) == { n \in 1..Len(upstream) : upstream[n].by = i }

\* C28: every upstream call carries temperature 0 and the seed of the
\* /generate request that started it, as the caller gave it; and no request
\* starts more than one upstream call, whether its call failed or not.
C28_UpstreamSeedAndOnce ==
    /\ \A n \in 1..Len(upstream) :
          /\ upstream[n].request.temperature = Num(0)
          /\ upstream[n].request.seed = calls[upstream[n].by].req.seed
    /\ \A i \in Calls : Cardinality(UpstreamCallsBy(i)) <= 1

\* The entries and PendingGenerations, named by Durable Object and key, that
\* the step creates, changes or removes.
Touched ==
    { dk \in UNION { {d} \X ((DOMAIN storage[d]) \cup (DOMAIN storage'[d])
                             \cup (DOMAIN pendingRequests[d])
                             \cup (DOMAIN pendingRequests'[d])) : d \in DOIds } :
        LET d == dk[1]  k == dk[2] IN
        \/ MapHas(storage[d], k) # MapHas(storage'[d], k)
        \/ MapHas(storage[d], k) /\ storage'[d][k] # storage[d][k]
        \/ MapHas(pendingRequests[d], k) # MapHas(pendingRequests'[d], k)
        \/ MapHas(pendingRequests[d], k)
              /\ pendingRequests'[d][k] # pendingRequests[d][k] }

\* C29: requests with the same fingerprint are routed to the same Durable
\* Object and requests with different fingerprints to different ones. A step
\* taken for a request changes no entry and no PendingGeneration but those
\* of its own Durable Object under its own key, and moves no request of
\* another fingerprint; the entry a request is served and the generation it
\* joins are those of its own key; and a sweep changes the entries of one
\* fingerprint only.
C29_FingerprintIsolation ==
    [][ /\ \A i \in 1..Len(calls') : \A j \in 1..Len(calls') :
              (calls'[i].key = calls'[j].key)
              <=> (idFromName(calls'[i].key) = idFromName(calls'[j].key))
        /\ \A i \in Calls :
              calls'[i] # calls[i]
              => /\ Touched \subseteq { <<DOof(i), calls'[i].cacheKey>> }
                 /\ \A j \in Calls :
                       calls'[j] # calls[j] => calls[j].key = calls[i].key
                 /\ calls'[i].cached # <<>>
                       => calls'[i].cached[1] = storage[DOof(i)][calls'[i].cacheKey]
                 /\ calls'[i].awaits # 0
                       => /\ calls[calls'[i].awaits].key = calls[i].key
                          /\ calls[calls'[i].awaits].cacheKey = calls'[i].cacheKey
        /\ Cardinality(Touched) <= 1
        /\ \A d \in DOIds : \A k \in DOMAIN storage'[d] :
              \E i \in Calls : DOof(i) = d /\ calls[i].cacheKey = k
      ]_vars

\* C29 witness: both fingerprints have an entry a day old; the Durable
\* Object of one was swept and lost its entry, the entry of the other is
\* past the horizon too and still in its store, untouched.
C29_Witness ==
    \E i \in Calls : \E j \in Calls :
        /\ calls[i].key # calls[j].key
        /\ Ok(i) /\ ~MapHas(storage[DOof(i)], calls[i].cacheKey)
        /\ Len(cleanups) = 1 /\ cleanups[1].body.deleted = 1
        /\ Ok(j) /\ MapHas(storage[DOof(j)], calls[j].cacheKey)
        /\ calls[j].cacheKey \in Expired(storage[DOof(j)])
        /\ storage[DOof(j)][calls[j].cacheKey].hit_count = 0

\* C30: every upstream call carries as system prompt and max_tokens the
\* values that entered the cache key of the request that started it (the
\* values given, or '' and 150 where they were left out); and two upstream
\* calls carry the same request exactly if they were made under the same
\* fingerprint.
C30_UpstreamAsFingerprinted ==
    /\ \A n \in 1..Len(upstream) :
          LET req == calls[upstream[n].by].req
              sent == upstream[n].request
          IN  /\ sent.messages[1].content = OrElse(req.system_prompt, Str(""))
              /\ sent.max_tokens = OrElse(req.max_tokens, Num(DefaultMaxTokens))
    /\ \A n \in 1..Len(upstream) : \A h \in 1..Len(upstream) :
          (calls[upstream[n].by].key = calls[upstream[h].by].key)
          <=> (upstream[n].request = upstream[h].request)

\* The requests that generated the entry request i was served: the
\* initiators answered from the same Durable Object under the same key.
GeneratorsOf(i) ==
    { g \in Calls :
         /\ Ok(g) /\ ~Resp(g).body.cached
         /\ calls[g].key # <<>> /\ DOof(g) = DOof(i)
         /\ calls[g].cacheKey = calls[i].cacheKey }

\* C31: every successful answer carries the model and the seed of the
\* request it answers; and a request answered cached = true, from the store
\* or by joining a generation, was answered with an entry generated by a
\* request with its own model, prompt, system prompt, temperature, seed and
\* max_tokens (after the defaults).
C31_OwnModelAndSeed ==
    \A i \in Calls :
        Ok(i)
        => /\ Resp(i).body.model = calls[i].req.model
           /\ Resp(i).body.seed = calls[i].req.seed
           /\ Resp(i).body.cached
                 => /\ GeneratorsOf(i) # {}
                    /\ \A g \in GeneratorsOf(i) :
                          FingerprintTuple(calls[g].req)
                             = FingerprintTuple(calls[i].req)

\* Request i is with its Durable Object and not yet answered.
AtCoordinator(i) ==
    i \in Calls /\ calls[i].pc \in {"reading", "joined", "upstream"}

\* C32: when the store and the upstream answer what is asked of them, every
\* request a Durable Object has taken is eventually answered, with a value
\* or an error: the initiator when its generation ends, and every request
\* that joined in the same turn.
C32_EveryRequestReturns ==
    \A i \in 1..MaxBodies :
        AtCoordinator(i) ~> (i \in Calls /\ Done(i) /\ Resp(i).status \in {200, 500})

\* C32 witness: a request joined the generation of another, the upstream
\* refused it, and both were answered with the error.
C32_Witness ==
    \E i \in Calls : \E j \in Calls :
        /\ calls[j].awaits = i
        /\ Failed(i) /\ Failed(j)
        /\ Resp(i).body.error = "OpenAI API error"
        /\ Resp(j).body = Resp(i).body
        /\ Len(calls) = 2

\* C33: every Durable Object stores entries only under the fingerprint the
\* Worker routed its requests by, every entry carries its storage key as
\* request_hash, and the key a Durable Object derives from the body it
\* receives is the key the Worker routed the request by.
C33_OneKeyThroughout ==
    /\ \A d \in DOIds : \A k \in DOMAIN storage[d] :
          /\ idFromName(k) = d
          /\ storage[d][k].request_hash = k
    /\ \A i \in Routed :
          calls[i].cacheKey # <<>> => calls[i].cacheKey = calls[i].key

====
